---------------------------- MODULE Spec2Model ----------------------------
(***************************************************************************)
(* Model of crates/next-core/src/nodejs/mod.rs: the partitioning of the    *)
(* asset graph (separate_assets), the emission of the internal assets      *)
(* (emit), the renderer pool (get_renderer_pool) and the interpretation of *)
(* the output of the Node.js process (render_static).                      *)
(***************************************************************************)
EXTENDS Integers, Sequences, FiniteSets, TLC

\* ------------------------------------------------------------------ bounds
NumAssets == 3
MaxEdges == 3
MaxRuns == 2
NumCallers == 2
MaxLines == 2
MaxEntries == 2

Assets == 1..NumAssets
Callers == 1..NumCallers

\* ------------------------------------------------------------------ paths
\* A FileSystemPath is the sequence of its segments.
OutputRoot == <<"out">>
Join(p, name) == Append(p, name)
IndexJs == Join(OutputRoot, "index.js")
ChunkJs == Join(OutputRoot, "chunk.js")
LibJs == <<"lib", "lib.js">>
PathSet == {IndexJs, ChunkJs, LibJs}

IsPrefix(p, q) == Len(p) <= Len(q) /\ SubSeq(q, 1, Len(p)) = p

\* FileSystemPath::is_inside: containment of the path in the directory.
IsInside(p, dir) == Len(p) > Len(dir) /\ IsPrefix(dir, p)

FirstAsset == CHOOSE a \in Assets : \A b \in Assets : a <= b

VARIABLES
    intermediate_asset,          \* the asset handed to separate_assets, emit
                                 \* and get_renderer_pool
    earlierEntries,              \* the entries get_renderer_pool was called for before
    refs,                        \* asset -> the primary assets of its references
    path,                        \* asset -> its destination path
    rootOnDisk,                  \* the output root is on a DiskFileSystem
    sepSt,                       \* separate_assets: none, running, done, error
    queue,                       \* the process_asset futures in flight
    processed,
    internal_assets,
    external_asset_entrypoints,
    processCount,                \* asset -> how often process_asset ran for it
    fetchCount,                  \* asset -> how often its references were fetched
    runs,                        \* executions of separate_assets so far
    prevResult,                  \* the result of the previous execution
    emitSt,                      \* the emit task
    writeSt,                     \* asset -> the write task of its content
    writeCount,                  \* asset -> completed physical writes
    poolSt,                      \* the get_renderer_pool task
    pools,                       \* the NodeJsPool values constructed
    pc,                          \* caller -> its position
    submitted,                   \* caller -> requests handed to pool.run
    opHeld,                      \* caller -> it holds an operation of the pool
    lines,                       \* caller -> the lines read from the operation
    result,                      \* caller -> what its call returned
    outcome,                     \* caller -> the RenderOutcome it computed
    issues                       \* the issues emitted, in order

graphVars == <<refs, path, rootOnDisk, intermediate_asset, earlierEntries>>
sepVars == <<sepSt, queue, processed, internal_assets,
             external_asset_entrypoints, processCount, fetchCount>>
runVars == <<runs, prevResult>>
emitVars == <<emitSt, writeSt, writeCount>>
poolVars == <<poolSt, pools>>
callVars == <<pc, submitted, opHeld, lines, result, outcome, issues>>
vars == <<graphVars, sepVars, runVars, emitVars, poolVars, callVars>>
otherVars == <<graphVars, runVars, emitVars, poolVars, callVars>>

\* ------------------------------------------------------- separate_assets
EdgeCount(r) == Cardinality({e \in Assets \X Assets : e[2] \in r[e[1]]})

Graphs == {r \in [Assets -> SUBSET Assets] : EdgeCount(r) <= MaxEdges}

\* Only the entry may be the bootstrap asset at <output root>/index.js.
PathMaps ==
    {p \in [Assets -> PathSet] :
        \A a \in Assets : a # FirstAsset => p[a] # IndexJs}

NoResult == [internal |-> {}, external |-> {}, valid |-> FALSE]

\* let mut queue = FuturesUnordered::new(); queue.push(process_asset(entry));
\* the three sets start empty.
SeparateBegin ==
    /\ sepSt' = "running"
    /\ queue' = {intermediate_asset}
    /\ processed' = {}
    /\ internal_assets' = {}
    /\ external_asset_entrypoints' = {}
    /\ processCount' = [a \in Assets |-> 0]
    /\ fetchCount' = [a \in Assets |-> 0]

\* The references pushed for an Internal item: those processed.insert accepts.
NewlyProcessedOneOnly(assets, seen) ==
    IF assets \ seen = {} THEN {}
    ELSE {CHOOSE a \in assets \ seen : TRUE}

NewlyProcessed(assets, seen) == assets \ seen

ClassifiedInternal(a) == TRUE

\* if asset.path().await?.is_inside(intermediate_output_path)
IsInternal(a) == IsInside(path[a], OutputRoot)

\* queue.try_next() yields the future of asset a, which completed without
\* an error, and the loop body handles the item.
ProcessItem(a) ==
    /\ sepSt = "running"
    /\ a \in queue
    /\ processCount' = [processCount EXCEPT ![a] = @ + 1]
    /\ IF IsInternal(a)
       THEN /\ fetchCount' = [fetchCount EXCEPT ![a] = @ + 1]
            /\ internal_assets' = internal_assets \cup {a}
            /\ processed' = processed \cup refs[a]
            /\ queue' = (queue \ {a}) \cup NewlyProcessed(refs[a], processed)
            /\ UNCHANGED external_asset_entrypoints
       ELSE /\ external_asset_entrypoints' = external_asset_entrypoints \cup {a}
            /\ queue' = queue \ {a}
            /\ UNCHANGED <<processed, internal_assets, fetchCount>>
    /\ UNCHANGED <<sepSt, otherVars>>

\* The future of an asset inside the output root fails while it fetches the
\* references: try_next()? returns the error from separate_assets.
ProcessFails(a) ==
    /\ sepSt = "running"
    /\ a \in queue
    /\ IsInternal(a)
    /\ sepSt' = "error"
    /\ queue' = {}
    /\ fetchCount' = [fetchCount EXCEPT ![a] = @ + 1]
    /\ UNCHANGED <<processed, internal_assets, external_asset_entrypoints,
                   processCount, otherVars>>

QueueDrainedOrNot(q) == TRUE

QueueBusy(q) == q # {}

\* while let Some(item) = queue.try_next().await? ends when nothing is in flight.
QueueDrained(q) == q = {}

SeparateReturn ==
    /\ sepSt = "running"
    /\ QueueDrained(queue)
    /\ sepSt' = "done"
    /\ UNCHANGED <<queue, processed, internal_assets,
                   external_asset_entrypoints, processCount, fetchCount,
                   otherVars>>

SeparatedAssets ==
    [internal |-> internal_assets, external |-> external_asset_entrypoints,
     valid |-> TRUE]

\* A further execution of separate_assets on the same graph; the result of
\* the execution that ended is kept for comparison.
SeparateAgain ==
    /\ sepSt = "done"
    /\ runs < MaxRuns
    /\ runs' = runs + 1
    /\ prevResult' = SeparatedAssets
    /\ SeparateBegin
    /\ UNCHANGED <<graphVars, emitVars, poolVars, callVars>>

SeparateCall ==
    /\ sepSt = "none"
    /\ SeparateBegin
    /\ runs' = runs + 1
    /\ UNCHANGED <<prevResult, graphVars, emitVars, poolVars, callVars>>

\* ------------------------------------------------------------ memoization
\* A turbo_tasks::function runs once per distinct arguments: the first call
\* schedules the task, every other call attaches to it.
Called(st) == IF st = "none" THEN "scheduled" ELSE st

PoolCalledAnew(st) == IF st \in {"none", "done"} THEN "scheduled" ELSE st

\* #[turbo_tasks::function] pub async fn get_renderer_pool: a call of the
\* memoized function.
PoolCalled(st) == Called(st)

Finished(st) == st \notin {"none", "scheduled", "partition", "writing", "await_emit"}
Failed(st) == st \in {"fetch_error", "write_error", "unsupported_fs"}

\* ------------------------------------------------------------------- emit
\* emit starts: internal_assets(..) calls separate_assets(..).
EmitBegin ==
    /\ emitSt = "scheduled"
    /\ sepSt = "none"
    /\ emitSt' = "partition"
    /\ SeparateBegin
    /\ runs' = runs + 1
    /\ UNCHANGED <<prevResult, writeSt, writeCount, graphVars, poolVars, callVars>>

\* internal_assets(..).await? failed.
EmitPartitionFailed ==
    /\ emitSt = "partition"
    /\ sepSt = "error"
    /\ emitSt' = "fetch_error"
    /\ UNCHANGED <<writeSt, writeCount, graphVars, sepVars, runVars, poolVars, callVars>>

WithTheEntry(assets) == assets \cup {intermediate_asset}

\* internal_assets(..).await?.iter(): the assets emit writes.
AssetsToWrite(assets) == assets

PartitionEnded(st) == st \in {"done", "error"}

\* internal_assets(intermediate_asset, intermediate_output_path).await?
\* returned the set.
PartitionReturned(st) == st = "done"

\* .iter().map(|a| a.content().write(a.path())).collect(): one write per
\* internal asset, all issued before any is awaited.
EmitIssueWrites ==
    /\ emitSt = "partition"
    /\ PartitionReturned(sepSt)
    /\ emitSt' = "writing"
    /\ writeSt' = [a \in Assets |->
                     IF a \in AssetsToWrite(internal_assets) /\ writeSt[a] = "none"
                     THEN "pending" ELSE writeSt[a]]
    /\ UNCHANGED <<writeCount, graphVars, sepVars, runVars, poolVars, callVars>>

WriteCompletes(a) ==
    /\ writeSt[a] = "pending"
    /\ writeSt' = [writeSt EXCEPT ![a] = "done"]
    /\ writeCount' = [writeCount EXCEPT ![a] = @ + 1]
    /\ UNCHANGED <<emitSt, graphVars, sepVars, runVars, poolVars, callVars>>

WriteFails(a) ==
    /\ writeSt[a] = "pending"
    /\ writeSt' = [writeSt EXCEPT ![a] = "failed"]
    /\ UNCHANGED <<emitSt, writeCount, graphVars, sepVars, runVars, poolVars, callVars>>

AnyWriteState(ws, as) == TRUE

AllSettled(ws, as) == \A a \in as : ws[a] \in {"done", "failed"}

\* CompletionsVc::all(): every write of the list has completed.
AllCompleted(ws, as) == \A a \in as : ws[a] = "done"

EmitCompletes ==
    /\ emitSt = "writing"
    /\ AllCompleted(writeSt, internal_assets)
    /\ emitSt' = "done"
    /\ UNCHANGED <<writeSt, writeCount, graphVars, sepVars, runVars, poolVars, callVars>>

EmitWriteFailed ==
    /\ emitSt = "writing"
    /\ \E a \in internal_assets : writeSt[a] = "failed"
    /\ emitSt' = "write_error"
    /\ UNCHANGED <<writeSt, writeCount, graphVars, sepVars, runVars, poolVars, callVars>>

\* ------------------------------------------------------ get_renderer_pool
PoolSize == 4
DiskRoot == <<"project">>

EntrypointMainJs(dir) == Join(dir, "main.js")

\* let entrypoint = dir.join("index.js");
EntrypointOf(dir) == Join(dir, "index.js")

\* The place on disk of a path of the output filesystem.
OnDisk(p) == DiskRoot \o p

NodeJsPoolNew(dir, entrypoint, size) ==
    [dir |-> dir, entrypoint |-> entrypoint, size |-> size]

\* get_renderer_pool starts: emit(intermediate_asset, intermediate_output_path)
PoolBegin ==
    /\ poolSt = "scheduled"
    /\ poolSt' = "await_emit"
    /\ emitSt' = Called(emitSt)
    /\ UNCHANGED <<pools, writeSt, writeCount, graphVars, sepVars, runVars, callVars>>

\* emit(..).await? failed.
PoolEmitFailed ==
    /\ poolSt = "await_emit"
    /\ Failed(emitSt)
    /\ poolSt' = emitSt
    /\ UNCHANGED <<pools, emitVars, graphVars, sepVars, runVars, callVars>>

EmitAwaitedOrNot(st) == TRUE

\* emit(..).await? returned the completion.
EmitAwaited(st) == st = "done"

DiskAssumed(disk) == TRUE

\* if let Some(disk) = DiskFileSystemVc::resolve_from(output.fs).await?
ResolvedDisk(disk) == disk

PoolResolve ==
    /\ poolSt = "await_emit"
    /\ EmitAwaited(emitSt)
    /\ IF ResolvedDisk(rootOnDisk)
       THEN LET dir == OnDisk(OutputRoot)
                entrypoint == EntrypointOf(dir)
            IN /\ pools' = Append(pools, NodeJsPoolNew(dir, entrypoint, PoolSize))
               /\ poolSt' = "done"
       ELSE /\ poolSt' = "unsupported_fs"
            /\ UNCHANGED pools
    /\ UNCHANGED <<emitVars, graphVars, sepVars, runVars, callVars>>

\* ------------------------------------------------- text, as character lists
RESULT == <<"R", "E", "S", "U", "L", "T", "=">>
ERROR == <<"E", "R", "R", "O", "R", "=">>

HasPrefix(s, prefix) == IsPrefix(prefix, s)

\* str::strip_prefix, where the prefix is there.
StripPrefix(s, prefix) == SubSeq(s, Len(prefix) + 1, Len(s))

RECURSIVE JoinLines(_)
\* [String]::join("\n")
JoinLines(ls) ==
    IF ls = <<>> THEN <<>>
    ELSE IF Len(ls) = 1 THEN ls[1]
    ELSE ls[1] \o <<"\n">> \o JoinLines(Tail(ls))

AllButLast(ls) == SubSeq(ls, 1, Len(ls) - 1)

\* serde_json::from_str on the JSON texts the model's lines hold: strings
\* with the escapes \" \\ \/ \n, unsigned integers and the three literals,
\* with spaces around them.
Spaces == {" "}
Digits == {"0", "1", "2", "3", "4", "5", "6", "7", "8", "9"}
Literals == {<<"n", "u", "l", "l">>, <<"t", "r", "u", "e">>,
             <<"f", "a", "l", "s", "e">>}
Escaped == [c \in {"\"", "\\", "/", "n"} |-> IF c = "n" THEN "\n" ELSE c]

RECURSIVE TrimLeft(_)
TrimLeft(s) ==
    IF s # <<>> /\ Head(s) \in Spaces THEN TrimLeft(Tail(s)) ELSE s

RECURSIVE TrimRight(_)
TrimRight(s) ==
    IF s # <<>> /\ s[Len(s)] \in Spaces
    THEN TrimRight(SubSeq(s, 1, Len(s) - 1)) ELSE s

IsJsonNumber(s) ==
    /\ s # <<>>
    /\ \A i \in 1..Len(s) : s[i] \in Digits
    /\ Len(s) > 1 => s[1] # "0"

RECURSIVE Unescape(_)
\* The characters between the quotes of a JSON string, decoded.
Unescape(body) ==
    IF body = <<>> THEN [ok |-> TRUE, str |-> <<>>]
    ELSE IF Head(body) = "\"" THEN [ok |-> FALSE, str |-> <<>>]
    ELSE IF Head(body) = "\\"
    THEN IF Len(body) >= 2 /\ body[2] \in DOMAIN Escaped
         THEN LET r == Unescape(SubSeq(body, 3, Len(body)))
              IN [ok |-> r.ok, str |-> <<Escaped[body[2]]>> \o r.str]
         ELSE [ok |-> FALSE, str |-> <<>>]
    ELSE LET r == Unescape(Tail(body))
         IN [ok |-> r.ok, str |-> <<Head(body)>> \o r.str]

JsonInvalid == [ok |-> FALSE, isString |-> FALSE, str |-> <<>>, text |-> <<>>]

\* ok: the text parses; isString and str: JsonValue::as_str; text:
\* JsonValue::to_string.
JsonFromStr(data) ==
    LET t == TrimRight(TrimLeft(data))
    IN IF Len(t) >= 2 /\ t[1] = "\"" /\ t[Len(t)] = "\""
       THEN LET u == Unescape(SubSeq(t, 2, Len(t) - 1))
            IN IF u.ok
               THEN [ok |-> TRUE, isString |-> TRUE, str |-> u.str, text |-> t]
               ELSE JsonInvalid
       ELSE IF IsJsonNumber(t) \/ t \in Literals
       THEN [ok |-> TRUE, isString |-> FALSE, str |-> <<>>, text |-> t]
       ELSE JsonInvalid

\* ---------------------------------------------------------- render_static
NotAString == <<"Result provided by Node.js rendering process was not a string">>
NoResultProvided == <<"No result provided by Node.js process">>
NoContent == <<"No content received from Node.js process.">>

SuccessInPre(markup) ==
    [kind |-> "Success", markup |-> <<"<pre>">> \o markup \o <<"</pre>">>,
     message |-> <<>>, logging |-> <<>>]

Success(markup) ==
    [kind |-> "Success", markup |-> markup, message |-> <<>>, logging |-> <<>>]
Failure(message, logging) ==
    [kind |-> "Failure", markup |-> <<>>, message |-> message, logging |-> logging]
HardError ==
    [kind |-> "HardError", markup |-> <<>>, message |-> <<>>, logging |-> <<>>]
NoOutcome ==
    [kind |-> "none", markup |-> <<>>, message |-> <<>>, logging |-> <<>>]

ErrorLoggingAll(ls) == JoinLines(ls)

\* logging: StringVc::cell(lines[..lines.len() - 1].join("\n"))
ErrorLogging(ls) == JoinLines(AllButLast(ls))

\* The if/else chain over lines.last(): the markup returned early, the
\* RenderingIssue built, or the error of serde_json::from_str(data)?.
Interpret(ls) ==
    IF ls # <<>>
    THEN LET last_line == ls[Len(ls)]
         IN IF HasPrefix(last_line, RESULT)
            THEN LET data == JsonFromStr(StripPrefix(last_line, RESULT))
                 IN IF ~data.ok THEN HardError
                    ELSE IF data.isString THEN Success(data.str)
                    ELSE Failure(NotAString, JoinLines(ls))
            ELSE IF HasPrefix(last_line, ERROR)
            THEN LET data == JsonFromStr(StripPrefix(last_line, ERROR))
                 IN IF ~data.ok THEN HardError
                    ELSE IF data.isString
                    THEN Failure(data.str, ErrorLogging(ls))
                    ELSE Failure(data.text, ErrorLogging(ls))
            ELSE Failure(NoResultProvided, JoinLines(ls))
    ELSE Failure(NoContent, <<>>)

ErrorPageWithoutLogs(message, logging) ==
    <<"<h1>Error during rendering</h1>", "\n", "<h2>Message</h2>", "\n",
      "<pre>">> \o message \o <<"</pre>", "\n", "<h2>Logs</h2>", "\n",
      "<pre>", "</pre>">>

\* format!("<h1>Error during rendering</h1>\n<h2>Message</h2>\n<pre>{}</pre>\n
\* <h2>Logs</h2>\n<pre>{}</pre>", issue.message, issue.logging)
ErrorPage(message, logging) ==
    <<"<h1>Error during rendering</h1>", "\n", "<h2>Message</h2>", "\n",
      "<pre>">> \o message \o <<"</pre>", "\n", "<h2>Logs</h2>", "\n",
      "<pre>">> \o logging \o <<"</pre>">>

Ok(content) == [kind |-> "Ok", content |-> content, err |-> "none"]
Err(e) == [kind |-> "Err", content |-> <<>>, err |-> e]
NoReturn == [kind |-> "none", content |-> <<>>, err |-> "none"]

RenderingIssue(context, message, logging) ==
    [context |-> context, message |-> message, logging |-> logging]

\* get_intermediate_asset: the bootstrap asset at <output root>/index.js.
IsBootstrapAsset(a) == path[a] = Join(OutputRoot, "index.js")

\* render_static starts: get_renderer_pool(get_intermediate_asset(..), ..)
RenderStart(c) ==
    /\ pc[c] = "idle"
    /\ IsBootstrapAsset(intermediate_asset)
    /\ pc' = [pc EXCEPT ![c] = "render_pool"]
    /\ poolSt' = PoolCalled(poolSt)
    /\ UNCHANGED <<pools, submitted, opHeld, lines, result, outcome, issues,
                   graphVars, sepVars, runVars, emitVars>>

\* renderer_pool.await? failed.
RenderPoolFailed(c) ==
    /\ pc[c] = "render_pool"
    /\ Failed(poolSt)
    /\ pc' = [pc EXCEPT ![c] = "render_done"]
    /\ result' = [result EXCEPT ![c] = Err(poolSt)]
    /\ UNCHANGED <<submitted, opHeld, lines, outcome, issues,
                   graphVars, sepVars, runVars, emitVars, poolVars>>

\* pool.run(data.to_string().await?.as_bytes()).await?
RenderRun(c) ==
    /\ pc[c] = "render_pool"
    /\ poolSt = "done"
    /\ pc' = [pc EXCEPT ![c] = "render_read"]
    /\ submitted' = [submitted EXCEPT ![c] = @ + 1]
    /\ opHeld' = [opHeld EXCEPT ![c] = TRUE]
    /\ UNCHANGED <<lines, result, outcome, issues,
                   graphVars, sepVars, runVars, emitVars, poolVars>>

KeptAfterRead(held) == held

\* The closure of spawn_blocking owns op: drop(op) after read_lines, and the
\* end of the closure when read_lines()? fails.
Released(held) == FALSE

\* spawn_blocking: op.read_lines()? returned the lines; drop(op).
RenderRead(c, Outputs) ==
    /\ pc[c] = "render_read"
    /\ \E ls \in Outputs : lines' = [lines EXCEPT ![c] = ls]
    /\ pc' = [pc EXCEPT ![c] = "render_interpret"]
    /\ opHeld' = [opHeld EXCEPT ![c] = Released(@)]
    /\ UNCHANGED <<submitted, result, outcome, issues,
                   graphVars, sepVars, runVars, emitVars, poolVars>>

\* op.read_lines()? failed.
RenderReadFailed(c) ==
    /\ pc[c] = "render_read"
    /\ pc' = [pc EXCEPT ![c] = "render_done"]
    /\ result' = [result EXCEPT ![c] = Err("read_error")]
    /\ opHeld' = [opHeld EXCEPT ![c] = Released(@)]
    /\ UNCHANGED <<submitted, lines, outcome, issues,
                   graphVars, sepVars, runVars, emitVars, poolVars>>

IssuesUnchanged(sink, issue) == sink

\* issue.cell().as_issue().emit()
IssueEmit(sink, issue) == Append(sink, issue)

\* Lines 220 to 276: the outcome, then the markup, the error of the JSON
\* parser, or the error page and the emitted issue.
RenderInterpret(c) ==
    /\ pc[c] = "render_interpret"
    /\ LET o == Interpret(lines[c])
       IN /\ outcome' = [outcome EXCEPT ![c] = o]
          /\ result' = [result EXCEPT ![c] =
                CASE o.kind = "Success" -> Ok(o.markup)
                  [] o.kind = "HardError" -> Err("json_error")
                  [] OTHER -> Ok(ErrorPage(o.message, o.logging))]
          /\ issues' = IF o.kind = "Failure"
                       THEN IssueEmit(issues, RenderingIssue(c, o.message, o.logging))
                       ELSE issues
    /\ pc' = [pc EXCEPT ![c] = "render_done"]
    /\ UNCHANGED <<submitted, opHeld, lines, graphVars, sepVars, runVars, emitVars, poolVars>>

\* ------------------------------------- callers of emit and get_renderer_pool
EmitCall(c) ==
    /\ pc[c] = "idle"
    /\ pc' = [pc EXCEPT ![c] = "emit_await"]
    /\ emitSt' = Called(emitSt)
    /\ UNCHANGED <<writeSt, writeCount, submitted, opHeld, lines, result, outcome, issues,
                   graphVars, sepVars, runVars, poolVars>>

EmitObserved(c) ==
    /\ pc[c] = "emit_await"
    /\ Finished(emitSt)
    /\ pc' = [pc EXCEPT ![c] = "emit_done"]
    /\ result' = [result EXCEPT ![c] =
            IF emitSt = "done" THEN [Ok(<<>>) EXCEPT !.kind = "Completion"]
            ELSE Err(emitSt)]
    /\ UNCHANGED <<submitted, opHeld, lines, outcome, issues,
                   graphVars, sepVars, runVars, emitVars, poolVars>>

PoolCall(c) ==
    /\ pc[c] = "idle"
    /\ pc' = [pc EXCEPT ![c] = "pool_await"]
    /\ poolSt' = PoolCalled(poolSt)
    /\ UNCHANGED <<pools, submitted, opHeld, lines, result, outcome, issues,
                   graphVars, sepVars, runVars, emitVars>>

PoolObserved(c) ==
    /\ pc[c] = "pool_await"
    /\ Finished(poolSt)
    /\ pc' = [pc EXCEPT ![c] = "pool_done"]
    /\ result' = [result EXCEPT ![c] =
            IF poolSt = "done" THEN [Ok(<<>>) EXCEPT !.kind = "Pool"]
            ELSE Err(poolSt)]
    /\ UNCHANGED <<submitted, opHeld, lines, outcome, issues,
                   graphVars, sepVars, runVars, emitVars, poolVars>>

\* ----------------------------------------------------------------- inputs
\* The JSON texts a terminal line may carry: "hi", "a\"\n" (with escapes),
\* 42, 7 between spaces, null, and three texts that are not JSON.
Payloads ==
    { <<"\"", "h", "i", "\"">>,
      <<"\"", "a", "\\", "\"", "\\", "n", "\"">>,
      <<"4", "2">>,
      <<" ", "7", " ">>,
      <<"n", "u", "l", "l">>,
      <<"x">>,
      <<"\"", "h">>,
      <<>> }

\* Lines with a prefix, a log line, the prefix without "=", a prefix that
\* is not at the start of the line, and the empty line.
LineSet ==
    {RESULT \o p : p \in Payloads} \cup {ERROR \o p : p \in Payloads}
    \cup { <<"l", "o", "g">>,
           <<"R", "E", "S", "U", "L", "T">>,
           <<" ">> \o RESULT \o <<"\"", "h", "i", "\"">>,
           <<>> }

SeqsUpTo(S, n) == UNION {[1..k -> S] : k \in 0..n}

AllOutputs == SeqsUpTo(LineSet, MaxLines)

\* The outputs the callers of the whole pipeline read.
SampleOutputs ==
    { <<>>,
      << <<"l", "o", "g">>, RESULT \o <<"\"", "h", "i", "\"">> >>,
      << ERROR \o <<"x">> >> }

ChainRefs == [a \in Assets |-> IF a < NumAssets THEN {a + 1} ELSE {}]
RingRefs == [a \in Assets |-> IF a < NumAssets THEN {a + 1} ELSE {FirstAsset}]
FanRefs == [a \in Assets |-> IF a = FirstAsset THEN Assets \ {a} ELSE {}]
SampleGraphs == {ChainRefs, RingRefs, FanRefs}

\* ------------------------------------------------------------------- Init
NothingCalled ==
    /\ intermediate_asset = FirstAsset
    /\ earlierEntries = {}
    /\ sepSt = "none"
    /\ queue = {}
    /\ processed = {}
    /\ internal_assets = {}
    /\ external_asset_entrypoints = {}
    /\ processCount = [a \in Assets |-> 0]
    /\ fetchCount = [a \in Assets |-> 0]
    /\ runs = 0
    /\ prevResult = NoResult
    /\ emitSt = "none"
    /\ writeSt = [a \in Assets |-> "none"]
    /\ writeCount = [a \in Assets |-> 0]
    /\ poolSt = "none"
    /\ pools = <<>>
    /\ pc = [c \in Callers |-> "idle"]
    /\ submitted = [c \in Callers |-> 0]
    /\ opHeld = [c \in Callers |-> FALSE]
    /\ lines = [c \in Callers |-> <<>>]
    /\ result = [c \in Callers |-> NoReturn]
    /\ outcome = [c \in Callers |-> NoOutcome]
    /\ issues = <<>>

\* The whole pipeline, on a few graphs.
Init ==
    /\ refs \in SampleGraphs
    /\ path \in PathMaps
    /\ rootOnDisk \in BOOLEAN
    /\ NothingCalled

Next ==
    \/ \E c \in Callers : EmitCall(c)
    \/ \E c \in Callers : EmitObserved(c)
    \/ \E c \in Callers : PoolCall(c)
    \/ \E c \in Callers : PoolObserved(c)
    \/ \E c \in Callers : RenderStart(c)
    \/ \E c \in Callers : RenderPoolFailed(c)
    \/ \E c \in Callers : RenderRun(c)
    \/ \E c \in Callers : RenderRead(c, SampleOutputs)
    \/ \E c \in Callers : RenderReadFailed(c)
    \/ \E c \in Callers : RenderInterpret(c)
    \/ EmitBegin
    \/ \E a \in Assets : ProcessItem(a)
    \/ \E a \in Assets : ProcessFails(a)
    \/ SeparateReturn
    \/ EmitPartitionFailed
    \/ EmitIssueWrites
    \/ \E a \in Assets : WriteCompletes(a)
    \/ \E a \in Assets : WriteFails(a)
    \/ EmitCompletes
    \/ EmitWriteFailed
    \/ PoolBegin
    \/ PoolEmitFailed
    \/ PoolResolve

Spec == Init /\ [][Next]_vars

\* separate_assets alone, on every graph within the bounds.
InitSeparate ==
    /\ refs \in Graphs
    /\ path \in PathMaps
    /\ rootOnDisk = TRUE
    /\ NothingCalled

NextSeparate ==
    \/ SeparateCall
    \/ \E a \in Assets : ProcessItem(a)
    \/ \E a \in Assets : ProcessFails(a)
    \/ SeparateReturn
    \/ SeparateAgain

SpecSeparate == InitSeparate /\ [][NextSeparate]_vars

\* One execution of separate_assets in which the futures in flight complete
\* and the task goes on whenever it can.
NextSeparateOnce ==
    \/ SeparateCall
    \/ \E a \in Assets : ProcessItem(a)
    \/ \E a \in Assets : ProcessFails(a)
    \/ SeparateReturn

SpecSeparateFair ==
    InitSeparate /\ [][NextSeparateOnce]_vars /\ WF_vars(NextSeparateOnce)

\* The interpretation of the output alone: one render_static has its
\* request with a worker of the pool, and reads any output within the bounds.
Reader == CHOOSE c \in Callers : \A d \in Callers : c <= d

InitRender ==
    /\ refs = ChainRefs
    /\ path = [a \in Assets |-> IF a = FirstAsset THEN IndexJs ELSE LibJs]
    /\ rootOnDisk = TRUE
    /\ intermediate_asset = FirstAsset
    /\ earlierEntries = {}
    /\ sepSt = "done"
    /\ queue = {}
    /\ processed = refs[intermediate_asset]
    /\ internal_assets = {intermediate_asset}
    /\ external_asset_entrypoints = refs[intermediate_asset]
    /\ processCount = [a \in Assets |->
            IF a \in {intermediate_asset} \cup refs[intermediate_asset] THEN 1 ELSE 0]
    /\ fetchCount = [a \in Assets |-> IF a = intermediate_asset THEN 1 ELSE 0]
    /\ runs = 1
    /\ prevResult = NoResult
    /\ emitSt = "done"
    /\ writeSt = [a \in Assets |-> IF a = intermediate_asset THEN "done" ELSE "none"]
    /\ writeCount = [a \in Assets |-> IF a = intermediate_asset THEN 1 ELSE 0]
    /\ poolSt = "done"
    /\ pools = <<NodeJsPoolNew(OnDisk(OutputRoot),
                               EntrypointOf(OnDisk(OutputRoot)), PoolSize)>>
    /\ pc = [c \in Callers |-> IF c = Reader THEN "render_read" ELSE "idle"]
    /\ submitted = [c \in Callers |-> IF c = Reader THEN 1 ELSE 0]
    /\ opHeld = [c \in Callers |-> c = Reader]
    /\ lines = [c \in Callers |-> <<>>]
    /\ result = [c \in Callers |-> NoReturn]
    /\ outcome = [c \in Callers |-> NoOutcome]
    /\ issues = <<>>

NextRender ==
    \/ RenderRead(Reader, AllOutputs)
    \/ RenderReadFailed(Reader)
    \/ RenderInterpret(Reader)

SpecRender == InitRender /\ [][NextRender]_vars

\* Calls of get_renderer_pool for several entry assets and one output root.
\* The tasks of two entries share the write tasks of the assets and nothing
\* else, so the calls for another entry are taken up when the tasks of this
\* one have ended: every task of the new entry is yet to be called.
OtherEntry ==
    /\ Finished(poolSt)
    /\ \A c \in Callers : pc[c] \in {"idle", "pool_done"}
    /\ \A a \in Assets : writeSt[a] # "pending"
    /\ Cardinality(earlierEntries) + 1 < MaxEntries
    /\ earlierEntries' = earlierEntries \cup {intermediate_asset}
    /\ intermediate_asset' \in Assets \ earlierEntries'
    /\ sepSt' = "none"
    /\ queue' = {}
    /\ processed' = {}
    /\ internal_assets' = {}
    /\ external_asset_entrypoints' = {}
    /\ processCount' = [a \in Assets |-> 0]
    /\ fetchCount' = [a \in Assets |-> 0]
    /\ runs' = 0
    /\ emitSt' = "none"
    /\ poolSt' = "none"
    /\ pc' = [c \in Callers |-> "idle"]
    /\ result' = [c \in Callers |-> NoReturn]
    /\ UNCHANGED <<refs, path, rootOnDisk, prevResult, writeSt, writeCount,
                   pools, submitted, opHeld, lines, outcome, issues>>

InitEntries ==
    /\ refs \in SampleGraphs
    /\ path \in PathMaps
    /\ rootOnDisk \in BOOLEAN
    /\ NothingCalled

NextEntries ==
    \/ \E c \in Callers : PoolCall(c)
    \/ \E c \in Callers : PoolObserved(c)
    \/ PoolBegin
    \/ EmitBegin
    \/ \E a \in Assets : ProcessItem(a)
    \/ \E a \in Assets : ProcessFails(a)
    \/ SeparateReturn
    \/ EmitPartitionFailed
    \/ EmitIssueWrites
    \/ \E a \in Assets : WriteCompletes(a)
    \/ \E a \in Assets : WriteFails(a)
    \/ EmitCompletes
    \/ EmitWriteFailed
    \/ PoolEmitFailed
    \/ PoolResolve
    \/ OtherEntry

SpecEntries == InitEntries /\ [][NextEntries]_vars

\* InitRender is a state of the whole pipeline: Spec violates this.
NotInitRender == ~InitRender

\* ----------------------------------------------------------------- claims
Interpreted(c) == pc[c] = "render_done" /\ outcome[c].kind # "none"

LastLine(c) == lines[c][Len(lines[c])]

Contains(s, part) ==
    \E i \in 0..(Len(s) - Len(part)) : SubSeq(s, i + 1, i + Len(part)) = part

Pre(text) == <<"<pre>">> \o text \o <<"</pre>">>

IssuesOf(c) == {i \in 1..Len(issues) : issues[i].context = c}

\* C1: once the worker has responded, whatever the lines are, render_static
\* returns no hard error: it returns the markup or the fallback page.
C1_NeverHardError ==
    \A c \in Callers :
        Interpreted(c) =>
            /\ result[c].kind = "Ok"
            /\ \/ outcome[c].kind = "Success" /\ result[c].content = outcome[c].markup
               \/ /\ outcome[c].kind = "Failure"
                  /\ Contains(result[c].content, Pre(outcome[c].message))

RECURSIVE ReachFrom(_)
\* The assets reachable from those of S by references of assets inside the
\* output root.
ReachFrom(S) ==
    LET inside == {a \in S : IsInside(path[a], OutputRoot)}
        next == S \cup UNION {refs[a] : a \in inside}
    IN IF next = S THEN S ELSE ReachFrom(next)

\* C2: when separate_assets returns, the internal and the external set are
\* disjoint and their union is the set of the assets reachable from the
\* entry by paths whose every asset but the last is inside the output root.
C2_Partition ==
    sepSt = "done" =>
        /\ internal_assets \cap external_asset_entrypoints = {}
        /\ internal_assets \cup external_asset_entrypoints
              = ReachFrom({intermediate_asset})

C2_Witness ==
    /\ sepSt = "done"
    /\ Cardinality(internal_assets) >= 2
    /\ external_asset_entrypoints # {}
    /\ internal_assets \cup external_asset_entrypoints = Assets

\* C3: with several concurrent callers of emit for the same entry and output
\* root, no internal asset is written more than once, and a caller sees emit
\* complete only when every internal asset has been written exactly once.
C3_WrittenOnceBeforeCompletion ==
    /\ \A a \in Assets : writeCount[a] <= 1
    /\ \A c \in Callers :
          result[c].kind = "Completion" =>
              \A a \in internal_assets :
                  writeSt[a] = "done" /\ writeCount[a] = 1

C3_Witness ==
    /\ Cardinality({c \in Callers : result[c].kind = "Completion"}) >= 2
    /\ Cardinality(internal_assets) >= 2

\* C4: a pool is constructed and a request is handed to a worker only after
\* the write of every internal asset has completed.
C4_WritesBeforePool ==
    (Len(pools) > 0 \/ \E c \in Callers : submitted[c] > 0) =>
        /\ sepSt = "done"
        /\ \A a \in internal_assets : writeSt[a] = "done"

C4_Witness ==
    /\ \E c \in Callers : submitted[c] > 0
    /\ Len(pools) > 0
    /\ Cardinality(internal_assets) >= 2

\* C5: a further execution of separate_assets on the same graph returns the
\* same two sets as the one before it, whatever the order in which the
\* futures of the two executions completed.
C5_SameResult ==
    (sepSt = "done" /\ prevResult.valid) => SeparatedAssets = prevResult

C5_Witness ==
    /\ sepSt = "done"
    /\ prevResult.valid
    /\ Cardinality(refs[intermediate_asset] \ {intermediate_asset}) >= 2
    /\ Cardinality(internal_assets) >= 2

\* C6: the kind of the outcome is decided by the last line: Success(s)
\* exactly when it is RESULT= and a JSON string s; RESULT= and a JSON value
\* that is no string, ERROR=, and neither prefix each give Failure.
C6_OutcomeByLastLine ==
    \A c \in Callers :
        (Interpreted(c) /\ lines[c] # <<>>) =>
            LET res == JsonFromStr(StripPrefix(LastLine(c), RESULT))
                isResult == HasPrefix(LastLine(c), RESULT)
                isError == HasPrefix(LastLine(c), ERROR)
            IN /\ outcome[c].kind = "Success"
                    <=> (isResult /\ res.ok /\ res.isString)
               /\ outcome[c].kind = "Success" => outcome[c].markup = res.str
               /\ (isResult /\ res.ok /\ ~res.isString) => outcome[c].kind = "Failure"
               /\ isError => outcome[c].kind = "Failure"
               /\ (~isResult /\ ~isError) => outcome[c].kind = "Failure"

\* C7: in a Failure, when the last line starts with ERROR= the log is the
\* lines but the last, joined by newlines, and the message is the decoded
\* string, or the text of the JSON value that is no string; otherwise (RESULT=
\* and no string, or neither prefix) the log is all the lines.
C7_LogSlicedByKind ==
    \A c \in Callers :
        (outcome[c].kind = "Failure" /\ lines[c] # <<>>) =>
            IF HasPrefix(LastLine(c), ERROR)
            THEN LET data == JsonFromStr(StripPrefix(LastLine(c), ERROR))
                 IN /\ outcome[c].logging = JoinLines(AllButLast(lines[c]))
                    /\ outcome[c].message =
                          IF data.isString THEN data.str ELSE data.text
            ELSE outcome[c].logging = JoinLines(lines[c])

C7_Witness ==
    \E c \in Callers :
        /\ outcome[c].kind = "Failure"
        /\ Len(lines[c]) >= 2
        /\ HasPrefix(LastLine(c), ERROR)
        /\ outcome[c].message = <<"7">>
        /\ outcome[c].logging # <<>>

\* C8: in a Failure the returned document holds the message and the whole
\* log, each in a <pre> block, and exactly one issue is reported, with the
\* message and the log of the page.
C8_PageAndOneIssue ==
    \A c \in Callers :
        (Interpreted(c) /\ outcome[c].kind = "Failure") =>
            /\ result[c].kind = "Ok"
            /\ Contains(result[c].content, Pre(outcome[c].message))
            /\ Contains(result[c].content, Pre(outcome[c].logging))
            /\ Cardinality(IssuesOf(c)) = 1
            /\ \A i \in IssuesOf(c) :
                  /\ issues[i].message = outcome[c].message
                  /\ issues[i].logging = outcome[c].logging

C8_Witness ==
    \E c \in Callers :
        /\ Interpreted(c)
        /\ outcome[c].kind = "Failure"
        /\ outcome[c].logging # <<>>
        /\ outcome[c].message = <<"h", "i">>
        /\ Len(issues) = 1

\* C9: when the output root is on no disk filesystem, get_renderer_pool ends
\* in a hard error, no pool is constructed, no request is handed to a worker,
\* and render_static returns the error of get_renderer_pool.
C9_NoDiskNoPool ==
    ~rootOnDisk =>
        /\ Len(pools) = 0
        /\ poolSt # "done"
        /\ \A c \in Callers : submitted[c] = 0
        /\ \A c \in Callers :
              pc[c] \in {"render_done", "pool_done"} =>
                  Failed(poolSt) /\ result[c] = Err(poolSt)

C9_Witness ==
    /\ ~rootOnDisk
    /\ emitSt = "done"
    /\ \E c \in Callers :
          pc[c] = "render_done" /\ result[c] = Err("unsupported_fs")

\* The entrypoint of the pool last constructed is the place of an asset
\* whose write has completed.
EntrypointWritten ==
    \E a \in Assets :
        /\ OnDisk(path[a]) = pools[Len(pools)].entrypoint
        /\ writeSt[a] = "done"

\* C10 as claimed: whenever get_renderer_pool returns a pool, index.js of its
\* directory has been written, for every entry asset.
C10_EntrypointWrittenAnyEntry == poolSt = "done" => EntrypointWritten

\* C10: whenever get_renderer_pool returns a pool for an entry asset whose
\* path is index.js in the output root, index.js of its directory has been
\* written by the emission.
C10_EntrypointWritten ==
    (poolSt = "done" /\ path[intermediate_asset] = Join(OutputRoot, "index.js"))
        => EntrypointWritten

C10_Witness ==
    /\ poolSt = "done"
    /\ path[intermediate_asset] = Join(OutputRoot, "index.js")
    /\ \E c \in Callers : pc[c] = "pool_done" /\ result[c].kind = "Pool"

\* C11 as claimed: at most one pool is constructed for a directory and an
\* entrypoint, also over calls made with different entry assets.
C11_OnePoolPerDirectory ==
    \A i, j \in 1..Len(pools) :
        (pools[i].dir = pools[j].dir /\ pools[i].entrypoint = pools[j].entrypoint)
            => i = j

\* C11: at most one pool is constructed for an entry asset and an output
\* root, however many calls of get_renderer_pool are made with them: the
\* pools are no more than the entries called for so far.
C11_OnePoolPerEntry == Len(pools) <= Cardinality(earlierEntries) + 1

C11_Witness ==
    /\ Len(pools) = 2
    /\ Cardinality(earlierEntries) = 1
    /\ Cardinality({c \in Callers : pc[c] = "pool_done" /\ result[c].kind = "Pool"}) >= 2

\* C12: when the path of the entry asset is outside the output root,
\* separate_assets returns no internal asset and the entry as the only
\* external one, the references of the entry are never fetched and emit
\* issues no write.
C12_EntryOutside ==
    ~IsInside(path[intermediate_asset], OutputRoot) =>
        /\ fetchCount[intermediate_asset] = 0
        /\ \A a \in Assets : writeSt[a] = "none" /\ writeCount[a] = 0
        /\ sepSt = "done" =>
              /\ internal_assets = {}
              /\ external_asset_entrypoints = {intermediate_asset}

C12_Witness ==
    /\ ~IsInside(path[intermediate_asset], OutputRoot)
    /\ emitSt = "done"
    /\ \E a \in refs[intermediate_asset] : IsInside(path[a], OutputRoot)
    /\ \E c \in Callers : result[c].kind = "Completion"

\* C14: in a run of separate_assets every asset is processed (classified,
\* and its references fetched when it is internal) exactly once, also with
\* a reference back to the entry asset.
C14_ProcessedOnce ==
    /\ \A a \in Assets : processCount[a] <= 1 /\ fetchCount[a] <= 1
    /\ sepSt = "done" =>
          \A a \in internal_assets \cup external_asset_entrypoints :
              processCount[a] = 1

Terminated == (sepSt = "done" /\ queue = {}) \/ sepSt = "error"

\* C15: on every graph, also with cycles of references among internal
\* assets, the traversal ends when every fetch completes: the queue is
\* empty and the result is returned, or a fetch has failed and the error is.
C15_Terminates == <>Terminated

C15_Witness ==
    /\ sepSt = "done"
    /\ queue = {}
    /\ \E a, b \in internal_assets : a # b /\ b \in refs[a] /\ a \in refs[b]

\* C16: the references of an asset outside the output root are never
\* fetched, and an asset reachable from the entry only through such assets
\* is never enqueued and is in neither set.
C16_ExternalNotFollowed ==
    /\ \A a \in Assets :
          ~IsInside(path[a], OutputRoot) => fetchCount[a] = 0
    /\ \A a \in Assets \ ReachFrom({intermediate_asset}) :
          /\ a \notin queue
          /\ processCount[a] = 0
          /\ a \notin internal_assets \cup external_asset_entrypoints

C16_Witness ==
    /\ sepSt = "done"
    /\ internal_assets # {}
    /\ \E x \in external_asset_entrypoints :
          \E a \in refs[x] :
              /\ a \notin ReachFrom({intermediate_asset})
              /\ IsInside(path[a], OutputRoot)

C19_OneExchange ==
    \A c \in Callers :
        /\ submitted[c] <= 1
        /\ opHeld[c] => (pc[c] = "render_read" /\ submitted[c] = 1)
        /\ pc[c] = "render_interpret" =>
              (submitted[c] = 1 /\ ~opHeld[c] /\ outcome[c].kind = "none"
               /\ IssuesOf(c) = {})
        /\ outcome[c].kind # "none" => (submitted[c] = 1 /\ ~opHeld[c])

C19_Witness ==
    \E c \in Callers :
        /\ pc[c] = "render_interpret"
        /\ ~opHeld[c]
        /\ lines[c] # <<>>
        /\ \E d \in Callers : opHeld[d]

\* C20: on a Success render_static returns the decoded markup itself and
\* reports no issue; an issue is reported only by an execution that returns
\* the fallback page.
C20_MarkupAndNoIssue ==
    \A c \in Callers :
        /\ (Interpreted(c) /\ outcome[c].kind = "Success") =>
              /\ lines[c] # <<>>
              /\ result[c] = Ok(JsonFromStr(StripPrefix(LastLine(c), RESULT)).str)
              /\ IssuesOf(c) = {}
        /\ IssuesOf(c) # {} =>
              /\ Interpreted(c)
              /\ outcome[c].kind = "Failure"
              /\ result[c].kind = "Ok"
              /\ Contains(result[c].content, <<"<h1>Error during rendering</h1>">>)

C20_Witness ==
    \E c \in Callers :
        /\ Interpreted(c)
        /\ Len(lines[c]) = 2
        /\ result[c] = Ok(<<"a", "\"", "\n">>)
        /\ issues = <<>>

Returned(c) == pc[c] \in {"emit_done", "pool_done", "render_done"}

\* C17: when a fetch of references fails during the partitioning,
\* separate_assets returns the error, emit fails with it and issues no
\* write, and get_renderer_pool constructs no pool.
C17_FetchFailure ==
    sepSt = "error" =>
        /\ \A a \in Assets : writeSt[a] = "none" /\ writeCount[a] = 0
        /\ emitSt \in {"partition", "fetch_error"}
        /\ Len(pools) = 0
        /\ Finished(poolSt) => poolSt = "fetch_error"
        /\ \A c \in Callers :
              /\ submitted[c] = 0
              /\ Returned(c) => result[c] = Err("fetch_error")

C17_Witness ==
    /\ sepSt = "error"
    /\ internal_assets # {}
    /\ poolSt = "fetch_error"
    /\ \E c \in Callers : pc[c] = "render_done" /\ result[c] = Err("fetch_error")

\* C18: when the write of an internal asset fails, emit fails, the writes
\* that completed stay in place, and get_renderer_pool and render_static
\* fail with the error: no pool is constructed and no request is submitted.
C18_WriteFailure ==
    /\ \A a \in Assets : writeCount[a] >= 1 => writeSt[a] = "done"
    /\ (\E a \in internal_assets : writeSt[a] = "failed") =>
          /\ emitSt \in {"writing", "write_error"}
          /\ Len(pools) = 0
          /\ Finished(poolSt) => poolSt = "write_error"
          /\ \A c \in Callers :
                /\ submitted[c] = 0
                /\ Returned(c) => result[c] = Err("write_error")

C18_Witness ==
    /\ emitSt = "write_error"
    /\ \E a \in internal_assets : writeSt[a] = "done" /\ writeCount[a] = 1
    /\ \E a \in internal_assets : writeSt[a] = "failed"
    /\ \E c \in Callers : pc[c] = "render_done" /\ result[c] = Err("write_error")

====
